---- MODULE Spec2Model ----
(***************************************************************************)
(* A model of redux-persist-transform-passwords (src/src/index.js, the     *)
(* variant of lines 89-328): the transform's two hooks, the keychain they  *)
(* call, and the lodash / JSON functions they are built from.              *)
(*                                                                         *)
(* A JavaScript string is a sequence of one-character strings, so that     *)
(* String(), JSON.stringify, JSON.parse and lodash's path parsing are      *)
(* computed, character by character.  A JavaScript value is a record       *)
(*   [t: type tag, n: number / boolean / array length,                     *)
(*    s: the characters of a string, m: the own properties, in order]      *)
(* whose fields always have the same shape, whatever the tag.              *)
(***************************************************************************)
EXTENDS Integers, Sequences, FiniteSets, TLC

\* ------------------------------------------------------------ JS values

Undefined == [t |-> "undefined", n |-> 0, s |-> <<>>, m |-> <<>>]

Null == [t |-> "null", n |-> 0, s |-> <<>>, m |-> <<>>]

Num(k) == [t |-> "number", n |-> k, s |-> <<>>, m |-> <<>>]

Bool(b) == [t |-> "boolean", n |-> IF b THEN 1 ELSE 0, s |-> <<>>, m |-> <<>>]

Str(cs) == [t |-> "string", n |-> 0, s |-> cs, m |-> <<>>]

\* An object: its own properties as <<key, value>> pairs in property order.
Obj(pairs) == [t |-> "object", n |-> 0, s |-> <<>>, m |-> pairs]

\* An array: its length, and the <<index key, value>> pairs of the elements
\* that are present (a deleted element leaves a hole).
Arr(len, pairs) == [t |-> "array", n |-> len, s |-> <<>>, m |-> pairs]

EmptyObject == Obj(<<>>)

\* lodash isObject / typeof v === 'object' && v !== null
IsObject(v) == v.t \in {"object", "array"}

\* v == null
IsNil(v) == v.t \in {"undefined", "null"}

\* !!v
Truthy(v) ==
    CASE v.t \in {"undefined", "null"} -> FALSE
      [] v.t = "number" -> v.n # 0
      [] v.t = "boolean" -> v.n = 1
      [] v.t = "string" -> v.s # <<>>
      [] OTHER -> TRUE

\* ----------------------------------------------------------- characters

Digits == <<"0", "1", "2", "3", "4", "5", "6", "7", "8", "9">>

IsDigit(c) == \E d \in 1..10 : Digits[d] = c

DigitVal(c) == (CHOOSE d \in 1..10 : Digits[d] = c) - 1

RECURSIVE NatToStr(_)
\* Number.prototype.toString of a natural number
NatToStr(k) ==
    IF k < 10 THEN <<Digits[k + 1]>>
    ELSE NatToStr(k \div 10) \o <<Digits[(k % 10) + 1]>>

RECURSIVE StrToNat(_)
StrToNat(cs) ==
    IF cs = <<>> THEN 0
    ELSE 10 * StrToNat(SubSeq(cs, 1, Len(cs) - 1)) + DigitVal(cs[Len(cs)])

\* lodash isIndex on a key: the canonical decimal form of a natural number
IsIndexKey(key) ==
    /\ key # <<>>
    /\ \A i \in 1..Len(key) : IsDigit(key[i])
    /\ (Len(key) > 1 => key[1] # "0")

\* ----------------------------------------------------------- properties

HasProp(v, key) == IsObject(v) /\ \E i \in 1..Len(v.m) : v.m[i][1] = key

\* v[key]
Prop(v, key) ==
    IF HasProp(v, key)
    THEN v.m[CHOOSE i \in 1..Len(v.m) : v.m[i][1] = key][2]
    ELSE IF v.t = "string" /\ IsIndexKey(key) /\ StrToNat(key) < Len(v.s)
    THEN Str(<<v.s[StrToNat(key) + 1]>>)
    ELSE Undefined

\* Where a new own property goes in property order: integer keys first, in
\* ascending order, then the others in insertion order.
InsertAt(pairs, key) ==
    IF IsIndexKey(key)
    THEN Cardinality({i \in 1..Len(pairs) :
             IsIndexKey(pairs[i][1]) /\ StrToNat(pairs[i][1]) < StrToNat(key)}) + 1
    ELSE Len(pairs) + 1

\* v[key] = value, on an object or an array; on a primitive the assignment
\* is dropped (lodash is not strict-mode code).
Assign(v, key, value) ==
    IF ~IsObject(v) THEN v
    ELSE IF HasProp(v, key)
    THEN [v EXCEPT !.m = [i \in 1..Len(v.m) |->
             IF v.m[i][1] = key THEN <<key, value>> ELSE v.m[i]]]
    ELSE LET at == InsertAt(v.m, key)
             pairs == SubSeq(v.m, 1, at - 1) \o << <<key, value>> >>
                        \o SubSeq(v.m, at, Len(v.m))
         IN  [v EXCEPT !.m = pairs,
                       !.n = IF v.t = "array" /\ IsIndexKey(key) /\ StrToNat(key) >= v.n
                             THEN StrToNat(key) + 1 ELSE v.n]

\* delete v[key]
Delete(v, key) ==
    IF ~IsObject(v) THEN v
    ELSE [v EXCEPT !.m = SelectSeq(v.m, LAMBDA p : p[1] # key)]

\* { ...v }
Spread(v) ==
    CASE v.t = "object" -> v
      [] v.t = "array" -> Obj(v.m)
      [] v.t = "string" -> Obj([i \in 1..Len(v.s) |-> <<NatToStr(i - 1), Str(<<v.s[i]>>)>>])
      [] OTHER -> EmptyObject

\* Object.keys(v)
ObjectKeys(v) == [i \in 1..Len(Spread(v).m) |-> Spread(v).m[i][1]]

\* --------------------------------------------------------- lodash paths

IsPathDelimiter(c) == c \in {".", "[", "]"}

RECURSIVE SplitPath(_, _, _, _)
\* The segments of p from character i on; cur is the segment being read and
\* open says whether one is being read.
SplitPath(p, i, cur, open) ==
    IF i > Len(p) THEN (IF open THEN <<cur>> ELSE <<>>)
    ELSE IF IsPathDelimiter(p[i])
    THEN (IF open THEN <<cur>> ELSE <<>>) \o SplitPath(p, i + 1, <<>>, FALSE)
    ELSE SplitPath(p, i + 1, Append(cur, p[i]), TRUE)

\* lodash stringToPath: "a.b[0].c" -> a, b, 0, c; a leading dot gives an
\* empty first key.
StringToPath(p) ==
    (IF p # <<>> /\ p[1] = "." THEN << <<>> >> ELSE <<>>) \o SplitPath(p, 1, <<>>, FALSE)

\* lodash isKey: a string without path syntax, or a property of the object
IsKey(p, object) ==
    \/ \A i \in 1..Len(p) : ~IsPathDelimiter(p[i])
    \/ HasProp(object, p)

\* lodash castPath
CastPath(p, object) == IF IsKey(p, object) THEN <<p>> ELSE StringToPath(p)

RECURSIVE BaseGet(_, _, _)
\* lodash baseGet, from segment i on
BaseGet(object, segs, i) ==
    IF i > Len(segs) THEN (IF Len(segs) = 0 THEN Undefined ELSE object)
    ELSE IF IsNil(object) THEN Undefined
    ELSE BaseGet(Prop(object, segs[i]), segs, i + 1)

\* lodash get(object, path)
Get(object, p) ==
    IF IsNil(object) THEN Undefined ELSE BaseGet(object, CastPath(p, object), 1)

RECURSIVE BaseSet(_, _, _, _)
\* lodash baseSet with the customizer `clone`, from segment i on, as a
\* function of the container: every container on the way is copied (clone of
\* a value is the same value), a missing one is created ([] before an index,
\* {} otherwise), and below a primitive or null nothing is set.
BaseSet(nested, segs, i, value) ==
    IF i = Len(segs) THEN Assign(nested, segs[i], value)
    ELSE LET objValue == Prop(nested, segs[i])
             newValue == IF objValue.t # "undefined" THEN objValue
                         ELSE IF IsIndexKey(segs[i + 1]) THEN Arr(0, <<>>)
                         ELSE EmptyObject
         IN  IF IsObject(newValue)
             THEN Assign(nested, segs[i], BaseSet(newValue, segs, i + 1, value))
             ELSE Assign(nested, segs[i], newValue)

\* lodash setWith(object, path, value, clone)
SetWith(object, p, value) ==
    IF ~IsObject(object) THEN object
    ELSE LET segs == CastPath(p, object)
         IN  IF Len(segs) = 0 THEN object ELSE BaseSet(object, segs, 1, value)

RECURSIVE BaseSetPlain(_, _, _, _)
\* lodash baseSet without a customizer, from segment i on: a container on the
\* way is kept, anything else there is replaced by a new one ([] before an
\* index, {} otherwise).
BaseSetPlain(nested, segs, i, value) ==
    IF i = Len(segs) THEN Assign(nested, segs[i], value)
    ELSE LET objValue == Prop(nested, segs[i])
             newValue == IF IsObject(objValue) THEN objValue
                         ELSE IF IsIndexKey(segs[i + 1]) THEN Arr(0, <<>>)
                         ELSE EmptyObject
         IN  Assign(nested, segs[i], BaseSetPlain(newValue, segs, i + 1, value))

\* lodash set(object, path, value)
LodashSet(object, p, value) ==
    IF ~IsObject(object) THEN object
    ELSE LET segs == CastPath(p, object)
         IN  IF Len(segs) = 0 THEN object ELSE BaseSetPlain(object, segs, 1, value)

RECURSIVE BaseUnset(_, _, _)
\* lodash baseUnset, from segment i on: delete parent(object, path)[last(path)]
BaseUnset(object, segs, i) ==
    IF i = Len(segs) THEN Delete(object, segs[i])
    ELSE LET child == Prop(object, segs[i])
         IN  IF IsObject(child)
             THEN Assign(object, segs[i], BaseUnset(child, segs, i + 1))
             ELSE object

\* lodash unset(object, path)
Unset(object, p) ==
    IF IsNil(object) THEN object
    ELSE LET segs == CastPath(p, object)
         IN  IF Len(segs) = 0 THEN object ELSE BaseUnset(object, segs, 1)

\* ------------------------------------------------- copies and sharing
\* The hooks work on copies.  A key path (a sequence of keys) names the
\* container found under it; `shared` below is the set of key paths whose
\* container in the working copy is the very object of the hook's argument,
\* so that a write to it is a write to the argument.

IsPrefix(s, u) == Len(s) <= Len(u) /\ SubSeq(u, 1, Len(s)) = s

RECURSIVE ContainerPaths(_)
\* The key paths of the containers below v: what a shallow copy of v
\* ({ ...v }, clone(v)) shares with v.
ContainerPaths(v) ==
    UNION {IF IsObject(v.m[i][2])
           THEN {<<v.m[i][1]>>} \cup {<<v.m[i][1]>> \o q : q \in ContainerPaths(v.m[i][2])}
           ELSE {} : i \in 1..Len(v.m)}

\* setWith without a customizer (lodash set): no container is copied.
ClonedNowhere(segs) == {}

\* The containers setWith(object, path, value, clone) replaces by a copy
\* before it descends into them: the one under every proper prefix of the path.
ClonedAlong(segs) == {SubSeq(segs, 1, i) : i \in 1..(Len(segs) - 1)}

RECURSIVE SpineDepth(_, _, _)
\* How many leading segments of the path, short of the last, lead to a
\* container of object: the container under them is the one written to.
SpineDepth(object, segs, i) ==
    IF i >= Len(segs) THEN i - 1
    ELSE IF IsObject(Prop(object, segs[i]))
    THEN SpineDepth(Prop(object, segs[i]), segs, i + 1)
    ELSE i - 1

\* setWith(copy of object, path, value, clone), and unset after it, write
\* to an object of the hook's argument: the container written to is shared
\* and was not copied on the way.
WritesThrough(sh, object, p) ==
    LET segs == CastPath(p, object)
        written == SubSeq(segs, 1, SpineDepth(object, segs, 1))
    IN  /\ IsObject(object) /\ Len(segs) > 0
        /\ written # <<>>
        /\ written \in sh \ ClonedAlong(segs)

\* set(copy of object, path, value) and unset(copy of object, path) write to
\* an object of the hook's argument: the container written to is shared.
WritesShared(sh, object, p) ==
    LET segs == CastPath(p, object)
        written == SubSeq(segs, 1, SpineDepth(object, segs, 1))
    IN  /\ IsObject(object) /\ Len(segs) > 0
        /\ written # <<>>
        /\ written \in sh

\* What is still shared after set(copy of object, path, value) or
\* unset(copy of object, path): nothing at or below the path.
SharedBut(sh, object, p) ==
    LET segs == CastPath(p, object)
    IN  IF ~IsObject(object) \/ Len(segs) = 0 THEN sh
        ELSE {q \in sh : ~IsPrefix(segs, q)}

\* What is still shared after setWith(copy of object, path, value, clone)
\* with a new value, or with unset after it: not the copied containers, and
\* nothing at or below the path.
SharedAfter(sh, object, p) ==
    LET segs == CastPath(p, object)
    IN  IF ~IsObject(object) \/ Len(segs) = 0 THEN sh
        ELSE {q \in sh : q \notin ClonedAlong(segs) /\ ~IsPrefix(segs, q)}

\* deleteIn without its unset: the path is copied and the value stays.
deleteInKeepsValue(state, p) ==
    IF p = <<>> THEN EmptyObject
    ELSE SetWith(Spread(state), p, Get(state, p))

\* deleteIn(state, path)
deleteIn(state, p) ==
    IF p = <<>> THEN EmptyObject
    ELSE LET valueAtPath == Get(state, p)
             stateWithClonedPath == SetWith(Spread(state), p, valueAtPath)
         IN  Unset(stateWithClonedPath, p)

\* ------------------------------------------------- strings and JSON text

LitNull == <<"n", "u", "l", "l">>

LitTrue == <<"t", "r", "u", "e">>

LitFalse == <<"f", "a", "l", "s", "e">>

LitUndefined == <<"u", "n", "d", "e", "f", "i", "n", "e", "d">>

LitObject == <<"[", "o", "b", "j", "e", "c", "t", " ", "O", "b", "j", "e", "c", "t", "]">>

RECURSIVE StringOf(_)
RECURSIVE JoinElements(_, _)
\* Array.prototype.join(","): null, undefined and holes give nothing
JoinElements(v, i) ==
    IF i >= v.n THEN <<>>
    ELSE LET e == Prop(v, NatToStr(i))
         IN  (IF i > 0 THEN <<",">> ELSE <<>>)
               \o (IF IsNil(e) THEN <<>> ELSE StringOf(e))
               \o JoinElements(v, i + 1)

\* String(v), which is v.toString() for every v but null and undefined
StringOf(v) ==
    CASE v.t = "undefined" -> LitUndefined
      [] v.t = "null" -> LitNull
      [] v.t = "number" -> NatToStr(v.n)
      [] v.t = "boolean" -> (IF v.n = 1 THEN LitTrue ELSE LitFalse)
      [] v.t = "string" -> v.s
      [] v.t = "object" -> LitObject
      [] OTHER -> JoinElements(v, 0)

RECURSIVE JsonEscape(_)
JsonEscape(cs) ==
    IF cs = <<>> THEN <<>>
    ELSE (IF cs[1] \in {"\"", "\\"} THEN <<"\\", cs[1]>> ELSE <<cs[1]>>)
           \o JsonEscape(Tail(cs))

JsonQuote(cs) == <<"\"">> \o JsonEscape(cs) \o <<"\"">>

RECURSIVE JSONStringify(_)
RECURSIVE JsonMembers(_, _, _)
\* The members of an object from property i on; a property whose value is
\* undefined is left out.  first: no member has been written yet.
JsonMembers(pairs, i, first) ==
    IF i > Len(pairs) THEN <<>>
    ELSE IF pairs[i][2].t = "undefined" THEN JsonMembers(pairs, i + 1, first)
    ELSE (IF first THEN <<>> ELSE <<",">>)
           \o JsonQuote(pairs[i][1]) \o <<":">> \o JSONStringify(pairs[i][2])
           \o JsonMembers(pairs, i + 1, FALSE)

RECURSIVE JsonElements(_, _)
\* The elements of an array from index i on; undefined and holes give null.
JsonElements(v, i) ==
    IF i >= v.n THEN <<>>
    ELSE LET e == Prop(v, NatToStr(i))
         IN  (IF i > 0 THEN <<",">> ELSE <<>>)
               \o (IF e.t = "undefined" THEN LitNull ELSE JSONStringify(e))
               \o JsonElements(v, i + 1)

\* JSON.stringify(v), for a v that is not undefined
JSONStringify(v) ==
    CASE v.t = "null" -> LitNull
      [] v.t = "number" -> NatToStr(v.n)
      [] v.t = "boolean" -> (IF v.n = 1 THEN LitTrue ELSE LitFalse)
      [] v.t = "string" -> JsonQuote(v.s)
      [] v.t = "object" -> <<"{">> \o JsonMembers(v.m, 1, TRUE) \o <<"}">>
      [] v.t = "array" -> <<"[">> \o JsonElements(v, 0) \o <<"]">>
      [] OTHER -> <<>>

\* The text s has lit at position i.
Matches(s, i, lit) ==
    /\ i + Len(lit) - 1 <= Len(s)
    /\ SubSeq(s, i, i + Len(lit) - 1) = lit

\* A parse result: ok, the value read, and the position after it.
Parsed(v, i) == [ok |-> TRUE, v |-> v, i |-> i]

ParseFail == [ok |-> FALSE, v |-> Undefined, i |-> 0]

RECURSIVE ParseString(_, _, _)
\* The characters of a string literal whose opening quote is before i.
ParseString(s, i, acc) ==
    IF i > Len(s) THEN ParseFail
    ELSE IF s[i] = "\"" THEN Parsed(Str(acc), i + 1)
    ELSE IF s[i] = "\\"
    THEN (IF i + 1 <= Len(s) /\ s[i + 1] \in {"\"", "\\"}
          THEN ParseString(s, i + 2, Append(acc, s[i + 1]))
          ELSE ParseFail)
    ELSE ParseString(s, i + 1, Append(acc, s[i]))

RECURSIVE DigitsEnd(_, _)
\* The position after the run of digits that starts at i.
DigitsEnd(s, i) == IF i <= Len(s) /\ IsDigit(s[i]) THEN DigitsEnd(s, i + 1) ELSE i

\* A natural number: digits, with no leading zero.
ParseNumber(s, i) ==
    LET j == DigitsEnd(s, i)
    IN  IF s[i] = "0" /\ j > i + 1 THEN ParseFail
        ELSE Parsed(Num(StrToNat(SubSeq(s, i, j - 1))), j)

RECURSIVE ParseValue(_, _)
RECURSIVE ParseMembers(_, _, _)
\* The members of an object after "{" or ",": "key":value, then "," or "}".
ParseMembers(s, i, acc) ==
    IF ~(i <= Len(s) /\ s[i] = "\"") THEN ParseFail
    ELSE LET k == ParseString(s, i + 1, <<>>)
         IN  IF ~(k.ok /\ k.i <= Len(s) /\ s[k.i] = ":") THEN ParseFail
             ELSE LET r == ParseValue(s, k.i + 1)
                  IN  IF ~(r.ok /\ r.i <= Len(s)) THEN ParseFail
                      ELSE IF s[r.i] = "}" THEN Parsed(Assign(acc, k.v.s, r.v), r.i + 1)
                      ELSE IF s[r.i] = "," THEN ParseMembers(s, r.i + 1, Assign(acc, k.v.s, r.v))
                      ELSE ParseFail

RECURSIVE ParseElements(_, _, _)
\* The elements of an array after "[" or ",": value, then "," or "]".
ParseElements(s, i, acc) ==
    LET r == ParseValue(s, i)
    IN  IF ~(r.ok /\ r.i <= Len(s)) THEN ParseFail
        ELSE IF s[r.i] = "]" THEN Parsed(Assign(acc, NatToStr(acc.n), r.v), r.i + 1)
        ELSE IF s[r.i] = "," THEN ParseElements(s, r.i + 1, Assign(acc, NatToStr(acc.n), r.v))
        ELSE ParseFail

\* One JSON value at position i (texts are written without white space).
ParseValue(s, i) ==
    IF i > Len(s) THEN ParseFail
    ELSE CASE s[i] = "{" ->
                (IF i + 1 <= Len(s) /\ s[i + 1] = "}" THEN Parsed(EmptyObject, i + 2)
                 ELSE ParseMembers(s, i + 1, EmptyObject))
           [] s[i] = "[" ->
                (IF i + 1 <= Len(s) /\ s[i + 1] = "]" THEN Parsed(Arr(0, <<>>), i + 2)
                 ELSE ParseElements(s, i + 1, Arr(0, <<>>)))
           [] s[i] = "\"" -> ParseString(s, i + 1, <<>>)
           [] IsDigit(s[i]) -> ParseNumber(s, i)
           [] Matches(s, i, LitNull) -> Parsed(Null, i + 4)
           [] Matches(s, i, LitTrue) -> Parsed(Bool(TRUE), i + 4)
           [] Matches(s, i, LitFalse) -> Parsed(Bool(FALSE), i + 5)
           [] OTHER -> ParseFail

\* JSON.parse(v): v is first converted to a string; ok is FALSE where
\* JSON.parse throws a SyntaxError.
JSONParse(v) ==
    LET s == StringOf(v)
        r == ParseValue(s, 1)
    IN  IF r.ok /\ r.i = Len(s) + 1 THEN [ok |-> TRUE, v |-> r.v]
        ELSE [ok |-> FALSE, v |-> Undefined]

\* coerceString that never serializes.
coerceStringNeverSerializes(value, serialize) ==
    IF value.t # "string" THEN StringOf(value) ELSE value.s

\* coerceString(value, serialize)
coerceString(value, serialize) ==
    IF serialize THEN JSONStringify(value)
    ELSE IF value.t # "string" THEN StringOf(value)
    ELSE value.s

RECURSIVE DeepEqual(_, _)
\* Deep equality of two values: the same type and contents, the properties
\* of an object compared by key whatever their order.
DeepEqual(a, b) ==
    /\ a.t = b.t
    /\ a.n = b.n
    /\ a.s = b.s
    /\ Len(a.m) = Len(b.m)
    /\ \A i \in 1..Len(a.m) :
         /\ HasProp(b, a.m[i][1])
         /\ DeepEqual(a.m[i][2], Prop(b, a.m[i][1]))

\* ------------------------------------------------------------ the inputs

\* The longest list of paths a configuration gives.
MaxPaths == 2

kA == <<"a">>

kB == <<"b">>

pAB == <<"a", ".", "b">>

pA0B == <<"a", "[", "0", "]", ".", "b">>

sPw == <<"p", "w">>

\* The paths configurations are built from.
Paths == {kA, kB, pAB, pA0B}

\* Lists of 1..MaxPaths different paths.
PathLists ==
    UNION {{l \in [1..k -> Paths] : \A i, j \in 1..k : i # j => l[i] # l[j]} : k \in 1..MaxPaths}

\* The states the hooks are called with.
States ==
    { Obj(<< <<kA, Num(4)>>, <<kB, Num(8)>> >>),
      Obj(<< <<kA, Num(0)>>, <<kB, Num(8)>> >>),
      Obj(<< <<kA, Obj(<< <<kB, Num(7)>> >>)>>, <<kB, Str(sPw)>> >>),
      Obj(<< <<kA, Arr(1, << <<<<"0">>, Obj(<< <<kB, Str(sPw)>> >>)>> >>)>>, <<kB, Null>> >>),
      Obj(<< <<kA, Str(sPw)>>, <<kB, Undefined>> >>),
      EmptyObject }

ServiceNames == {<<>>, <<"S">>}

AccountNames == {<<>>, <<"N">>}

\* config.passwordPaths: absent, a string, a list of strings, or a function
\* of the state (state => Object.keys(state), or one that returns nothing).
PasswordPathsOptions ==
    {[kind |-> "absent", list |-> <<>>, fn |-> ""]}
      \cup {[kind |-> "string", list |-> <<p>>, fn |-> ""] : p \in Paths}
      \cup {[kind |-> "list", list |-> l, fn |-> ""] : l \in PathLists}
      \cup {[kind |-> "function", list |-> <<>>, fn |-> f] : f \in {"keys", "nothing"}}

Configs ==
    [serviceName : ServiceNames, accountName : AccountNames,
     passwordPaths : PasswordPathsOptions, clearPasswords : BOOLEAN, serialize : BOOLEAN]

\* What the keychain holds for every account before the first pass: nothing
\* (no entry), or one of these strings.
Seeds == {<<>>, sPw, JSONStringify(Obj(<< <<kB, Num(7)>> >>))}

\* The accounts a seeded keychain has entries for.
SeededAccounts == Paths \cup {<<"N">>}

\* A keychain is a set of entries, at most one for a service and account:
\* empty, every account with the same secret, or account a with a string that
\* is not JSON and the others with JSON text.
Keychains ==
    {{}} \cup {{[service |-> <<"S">>, account |-> a, secret |-> s] : a \in SeededAccounts} : s \in Seeds}
         \cup {{[service |-> <<"S">>, account |-> a,
                 secret |-> IF a = kA THEN sPw ELSE JSONStringify(Obj(<< <<kB, Num(7)>> >>))] :
                   a \in SeededAccounts}}

\* --------------------------------------------------------------- keytar

HasEntry(kc, service, account) ==
    \E e \in kc : e.service = service /\ e.account = account

\* What keytar's getPassword resolves to: the secret, or null without entry.
Lookup(kc, service, account) ==
    IF HasEntry(kc, service, account)
    THEN Str((CHOOSE e \in kc : e.service = service /\ e.account = account).secret)
    ELSE Null

\* A store that keeps the written entry alone.
StoreAlone(kc, service, account, secret) ==
    {[service |-> service, account |-> account, secret |-> secret]}

\* The keychain after keytar's setPassword has succeeded.
Store(kc, service, account, secret) ==
    {e \in kc : ~(e.service = service /\ e.account = account)}
      \cup {[service |-> service, account |-> account, secret |-> secret]}

NoCall == [op |-> "none", service |-> <<>>, account |-> <<>>, secret |-> <<>>]

SetPasswordCall(service, account, secret) ==
    [op |-> "setPassword", service |-> service, account |-> account, secret |-> secret]

GetPasswordCall(service, account) ==
    [op |-> "getPassword", service |-> service, account |-> account, secret |-> <<>>]

DeletePasswordCall(service, account) ==
    [op |-> "deletePassword", service |-> service, account |-> account, secret |-> <<>>]

\* The keychain after keytar's deletePassword has removed the entry.
Remove(kc, service, account) ==
    {e \in kc : ~(e.service = service /\ e.account = account)}

\* ------------------------------------------------------- the transform

VARIABLES
    cfg,        \* the config createPasswordTransform was called with
    args,       \* the arguments accessKeychain or clearKeychain was called with,
                \* and (history) the keychain at the call
    pc,         \* "new", "threw", "idle", "loop", "await", "whole", "done", "raised";
                \* "first-..." for the earliest variant
    keychain,   \* the entries of the keychain
    hook,       \* the function that is running or has run: "none", "inbound",
                \* "outbound", "accessKeychain", "clearKeychain", "first-inbound",
                \* "first-outbound"
    input,      \* the hook's argument, state
    original,   \* what the object the hook was called with holds now
    shared,     \* the key paths of the containers work shares with it
    work,       \* inboundState / outboundState
    paths,      \* pathsToGet / pathsToSet, when it is a list
    idx,        \* the position in paths of the path the loop is at
    pending,    \* the keytar call that has not completed yet
    calls,      \* history: the keytar calls issued by the running hook, in order
    outcomes,   \* history: what became of each path the loop has been through
    result,     \* what the hook returned
    persisted,  \* history: the persist pass whose result is being rehydrated
    passes      \* two calls of inbound that run interleaved: for each its
                \* position, argument, working copy, outstanding call and result

vars == <<cfg, args, pc, keychain, hook, input, original, shared, work, paths, idx, pending, calls, outcomes,
          result, persisted, passes>>

NoConfig ==
    [serviceName |-> <<>>, accountName |-> <<>>,
     passwordPaths |-> [kind |-> "absent", list |-> <<>>, fn |-> ""],
     clearPasswords |-> TRUE, serialize |-> FALSE]

NoArgs == [serviceName |-> <<>>, accountName |-> <<>>, keychain |-> {}]

\* The two interleaved calls of inbound.
Passes == {1, 2}

NoPass ==
    [pc |-> "idle", input |-> Undefined, work |-> Undefined, idx |-> 0, pending |-> NoCall,
     outcomes |-> <<>>, result |-> Undefined]

NoPersist == [valid |-> FALSE, input |-> Undefined, result |-> Undefined, outcomes |-> <<>>]

\* !passwordPaths
NoPasswordPaths(pp) ==
    \/ pp.kind = "absent"
    \/ pp.kind = "string" /\ pp.list[1] = <<>>

\* serialize as the option alone: !!config.serialize
serializeOptionOnly == cfg.serialize

\* const serialize = config.serialize || !config.passwordPaths
serialize == cfg.serialize \/ NoPasswordPaths(cfg.passwordPaths)

\* getPasswordPaths(state): threw when the call of passwordPaths throws
\* (Object.keys of null or undefined), nil when the result is null or
\* undefined, else the list of paths.
getPasswordPaths(state) ==
    LET pp == cfg.passwordPaths
    IN  IF NoPasswordPaths(pp) THEN [threw |-> FALSE, nil |-> TRUE, list |-> <<>>]
        ELSE IF pp.kind = "function" /\ pp.fn = "keys"
        THEN (IF IsNil(state) THEN [threw |-> TRUE, nil |-> FALSE, list |-> <<>>]
              ELSE [threw |-> FALSE, nil |-> FALSE, list |-> ObjectKeys(state)])
        ELSE IF pp.kind = "function" THEN [threw |-> FALSE, nil |-> TRUE, list |-> <<>>]
        ELSE [threw |-> FALSE, nil |-> FALSE, list |-> pp.list]

\* accountName || path
AccountFor(p) == IF cfg.accountName # <<>> THEN cfg.accountName ELSE p

Init ==
    /\ cfg = NoConfig
    /\ args = NoArgs
    /\ pc = "new"
    /\ keychain \in Keychains
    /\ hook = "none"
    /\ input = Undefined
    /\ original = Undefined
    /\ shared = {}
    /\ work = Undefined
    /\ paths = <<>>
    /\ idx = 0
    /\ pending = NoCall
    /\ calls = <<>>
    /\ outcomes = <<>>
    /\ result = Undefined
    /\ persisted = NoPersist
    /\ passes = [p \in Passes |-> NoPass]

\* A constructor that requires passwordPaths, whatever the accountName.
createPasswordTransformRequiresPaths ==
    /\ pc = "new"
    /\ \E config \in Configs :
         /\ cfg' = config
         /\ pc' = IF config.serviceName = <<>> \/ NoPasswordPaths(config.passwordPaths)
                  THEN "threw" ELSE "idle"
    /\ UNCHANGED <<args, keychain, hook, input, original, shared, work, paths, idx, pending,
                   calls, outcomes, result, persisted, passes>>

\* createPasswordTransform(config)
createPasswordTransform ==
    /\ pc = "new"
    /\ \E config \in Configs :
         /\ cfg' = config
         /\ pc' = IF config.serviceName = <<>>
                     \/ (NoPasswordPaths(config.passwordPaths) /\ config.accountName = <<>>)
                  THEN "threw" ELSE "idle"
    /\ UNCHANGED <<args, keychain, hook, input, original, shared, work, paths, idx, pending, calls, outcomes,
                   result, persisted, passes>>

\* inbound(state), the persist pass, to its first await: the copy is made
\* and the paths are resolved; with paths the loop starts, without them the
\* whole reducer is written.
inbound ==
    /\ pc = "idle"
    /\ \E state \in States :
         LET pathsToGet == getPasswordPaths(state)
             call == SetPasswordCall(cfg.serviceName, cfg.accountName,
                                     coerceString(Spread(state), serialize))
         IN  /\ hook' = "inbound"
             /\ input' = state
             /\ original' = state
             /\ shared' = ContainerPaths(state)
             /\ work' = Spread(state)
             /\ pc' = IF pathsToGet.threw THEN "raised"
                      ELSE IF ~pathsToGet.nil THEN "loop" ELSE "whole"
             /\ paths' = pathsToGet.list
             /\ idx' = 1
             /\ pending' = IF pathsToGet.threw \/ ~pathsToGet.nil THEN NoCall ELSE call
             /\ calls' = IF pathsToGet.threw \/ ~pathsToGet.nil THEN <<>> ELSE <<call>>
    /\ outcomes' = <<>>
    /\ result' = Undefined
    /\ UNCHANGED <<cfg, args, keychain, persisted, passes>>

\* setPasswordForPath(inboundState, path), to its await: nothing at the path
\* returns (undefined) at once, otherwise setPassword is called.
setPasswordForPath ==
    /\ pc = "loop" /\ hook = "inbound" /\ idx <= Len(paths)
    /\ LET path == paths[idx]
           secret == Get(work, path)
           call == SetPasswordCall(cfg.serviceName, AccountFor(path),
                                   coerceString(secret, serialize))
       IN  IF ~Truthy(secret)
           THEN /\ work' = Undefined
                /\ shared' = {}
                /\ idx' = idx + 1
                /\ outcomes' = Append(outcomes, "nothing")
                /\ UNCHANGED <<pc, pending, calls>>
           ELSE /\ pc' = "await"
                /\ pending' = call
                /\ calls' = Append(calls, call)
                /\ UNCHANGED <<work, shared, idx, outcomes>>
    /\ UNCHANGED <<cfg, args, keychain, hook, input, original, paths, result, persisted, passes>>

\* setPassword has succeeded: the rest of setPasswordForPath's try block.
setPasswordResolved ==
    /\ pc = "await" /\ hook = "inbound"
    /\ keychain' = Store(keychain, pending.service, pending.account, pending.secret)
    /\ work' = IF cfg.clearPasswords THEN deleteIn(work, paths[idx]) ELSE work
    /\ original' = IF cfg.clearPasswords /\ paths[idx] # <<>>
                       /\ WritesThrough(shared, work, paths[idx])
                    THEN Unset(SetWith(original, paths[idx], Get(work, paths[idx])), paths[idx])
                    ELSE original
    /\ shared' = IF ~cfg.clearPasswords THEN shared
                  ELSE IF paths[idx] = <<>> THEN {}
                  ELSE SharedAfter(shared, work, paths[idx])
    /\ pc' = "loop"
    /\ idx' = idx + 1
    /\ pending' = NoCall
    /\ outcomes' = Append(outcomes, "written")
    /\ UNCHANGED <<cfg, args, hook, input, paths, calls, result, persisted, passes>>

\* setPassword has thrown: setPasswordForPath's catch block.
setPasswordRejected ==
    /\ pc = "await" /\ hook = "inbound"
    /\ pc' = "loop"
    /\ idx' = idx + 1
    /\ pending' = NoCall
    /\ outcomes' = Append(outcomes, "failed")
    /\ UNCHANGED <<cfg, args, keychain, hook, input, original, shared, work, paths, calls, result, persisted, passes>>

\* inbound's return after the loop
inboundReturn ==
    /\ pc = "loop" /\ hook = "inbound" /\ idx > Len(paths)
    /\ pc' = "done"
    /\ result' = work
    /\ UNCHANGED <<cfg, args, keychain, hook, input, original, shared, work, paths, idx, pending, calls, outcomes,
                   persisted, passes>>

\* inbound without paths: setPassword has succeeded, return {}
writeReducerResolved ==
    /\ pc = "whole" /\ hook = "inbound"
    /\ keychain' = Store(keychain, pending.service, pending.account, pending.secret)
    /\ pc' = "done"
    /\ pending' = NoCall
    /\ outcomes' = <<"written">>
    /\ result' = EmptyObject
    /\ UNCHANGED <<cfg, args, hook, input, original, shared, work, paths, idx, calls, persisted, passes>>

\* inbound without paths: setPassword has thrown, the catch block returns {}
writeReducerRejected ==
    /\ pc = "whole" /\ hook = "inbound"
    /\ pc' = "done"
    /\ pending' = NoCall
    /\ outcomes' = <<"failed">>
    /\ result' = EmptyObject
    /\ UNCHANGED <<cfg, args, keychain, hook, input, original, shared, work, paths, idx, calls, persisted, passes>>

\* outbound(state), the rehydrate pass, to its first await, called with
\* state: the copy is made and the paths are resolved; with paths the loop
\* starts, without them the whole reducer is read.
outboundOf(state, from) ==
    LET pathsToSet == getPasswordPaths(state)
        call == GetPasswordCall(cfg.serviceName, cfg.accountName)
    IN  /\ hook' = "outbound"
        /\ input' = state
        /\ original' = state
        /\ shared' = ContainerPaths(state)
        /\ work' = Spread(state)
        /\ pc' = IF pathsToSet.threw THEN "raised"
                 ELSE IF ~pathsToSet.nil THEN "loop" ELSE "whole"
        /\ paths' = pathsToSet.list
        /\ idx' = 1
        /\ pending' = IF pathsToSet.threw \/ ~pathsToSet.nil THEN NoCall ELSE call
        /\ calls' = IF pathsToSet.threw \/ ~pathsToSet.nil THEN <<>> ELSE <<call>>
        /\ outcomes' = <<>>
        /\ result' = Undefined
        /\ persisted' = from
        /\ UNCHANGED <<cfg, args, keychain, passes>>

\* outbound is called with a state read from storage.
outbound ==
    /\ pc = "idle"
    /\ \E state \in States : outboundOf(state, NoPersist)

\* outbound is called with the state the persist pass returned.
outboundPersisted ==
    /\ pc = "done" /\ hook = "inbound"
    /\ outboundOf(result, [valid |-> TRUE, input |-> input, result |-> result,
                           outcomes |-> outcomes])

\* A loop that does not await getPasswordForPath: the call is issued and the
\* loop moves on.
getPasswordForPathNoAwait ==
    /\ pc = "loop" /\ hook = "outbound" /\ idx <= Len(paths)
    /\ LET call == GetPasswordCall(cfg.serviceName, AccountFor(paths[idx]))
       IN  /\ pending' = call
           /\ calls' = Append(calls, call)
    /\ idx' = idx + 1
    /\ UNCHANGED <<cfg, args, pc, keychain, hook, input, original, shared, work, paths,
                   outcomes, result, persisted, passes>>

\* getPasswordForPath(outboundState, path), to its await
getPasswordForPath ==
    /\ pc = "loop" /\ hook = "outbound" /\ idx <= Len(paths)
    /\ LET call == GetPasswordCall(cfg.serviceName, AccountFor(paths[idx]))
       IN  /\ pc' = "await"
           /\ pending' = call
           /\ calls' = Append(calls, call)
    /\ UNCHANGED <<cfg, args, keychain, hook, input, original, shared, work, paths, idx, outcomes, result, persisted, passes>>

\* JSON.parse outside the try block: a stored string that is not JSON makes
\* the pass raise.
getPasswordResolvedParseRaises ==
    /\ pc = "await" /\ hook = "outbound"
    /\ LET secret == Lookup(keychain, pending.service, pending.account)
           parsed == JSONParse(secret)
           toSet == IF serialize THEN parsed.v ELSE secret
       IN  IF ~Truthy(secret)
           THEN /\ outcomes' = Append(outcomes, "nothing")
                /\ pc' = "loop"
                /\ UNCHANGED <<work, original, shared>>
           ELSE IF serialize /\ ~parsed.ok
           THEN /\ outcomes' = Append(outcomes, "unparsed")
                /\ pc' = "raised"
                /\ UNCHANGED <<work, original, shared>>
           ELSE /\ outcomes' = Append(outcomes, "set")
                /\ pc' = "loop"
                /\ work' = SetWith(work, paths[idx], toSet)
                /\ original' = IF WritesThrough(shared, work, paths[idx])
                                THEN SetWith(original, paths[idx], toSet)
                                ELSE original
                /\ shared' = SharedAfter(shared, work, paths[idx])
    /\ idx' = idx + 1
    /\ pending' = NoCall
    /\ UNCHANGED <<cfg, args, keychain, hook, input, paths, calls, result, persisted, passes>>

\* getPassword has resolved: the rest of getPasswordForPath's try block, and
\* its catch block when JSON.parse throws.
getPasswordResolved ==
    /\ pc = "await" /\ hook = "outbound"
    /\ LET secret == Lookup(keychain, pending.service, pending.account)
           parsed == JSONParse(secret)
           toSet == IF serialize THEN parsed.v ELSE secret
       IN  IF ~Truthy(secret)
           THEN /\ outcomes' = Append(outcomes, "nothing")
                /\ UNCHANGED <<work, original, shared>>
           ELSE IF serialize /\ ~parsed.ok
           THEN /\ outcomes' = Append(outcomes, "unparsed")
                /\ UNCHANGED <<work, original, shared>>
           ELSE /\ outcomes' = Append(outcomes, "set")
                /\ work' = SetWith(work, paths[idx], toSet)
                /\ original' = IF WritesThrough(shared, work, paths[idx])
                                THEN SetWith(original, paths[idx], toSet)
                                ELSE original
                /\ shared' = SharedAfter(shared, work, paths[idx])
    /\ pc' = "loop"
    /\ idx' = idx + 1
    /\ pending' = NoCall
    /\ UNCHANGED <<cfg, args, keychain, hook, input, paths, calls, result, persisted, passes>>

\* A catch block that leaves the loop: no later path is read.
getPasswordRejectedBreaks ==
    /\ pc = "await" /\ hook = "outbound"
    /\ pc' = "loop"
    /\ idx' = Len(paths) + 1
    /\ pending' = NoCall
    /\ outcomes' = Append(outcomes, "failed")
    /\ UNCHANGED <<cfg, args, keychain, hook, input, original, shared, work, paths, calls, result, persisted, passes>>

\* getPassword has thrown: getPasswordForPath's catch block.
getPasswordRejected ==
    /\ pc = "await" /\ hook = "outbound"
    /\ pc' = "loop"
    /\ idx' = idx + 1
    /\ pending' = NoCall
    /\ outcomes' = Append(outcomes, "failed")
    /\ UNCHANGED <<cfg, args, keychain, hook, input, original, shared, work, paths, calls, result, persisted, passes>>

\* outbound's return after the loop
outboundReturn ==
    /\ pc = "loop" /\ hook = "outbound" /\ idx > Len(paths)
    /\ pc' = "done"
    /\ result' = work
    /\ UNCHANGED <<cfg, args, keychain, hook, input, original, shared, work, paths, idx, pending, calls, outcomes,
                   persisted, passes>>

\* outbound without paths: getPassword has resolved; return JSON.parse(secret),
\* or {} from the catch block when it throws.
readReducerResolved ==
    /\ pc = "whole" /\ hook = "outbound"
    /\ LET parsed == JSONParse(Lookup(keychain, pending.service, pending.account))
       IN  /\ result' = IF parsed.ok THEN parsed.v ELSE EmptyObject
           /\ outcomes' = IF parsed.ok THEN <<"set">> ELSE <<"unparsed">>
    /\ pc' = "done"
    /\ pending' = NoCall
    /\ UNCHANGED <<cfg, args, keychain, hook, input, original, shared, work, paths, idx, calls, persisted, passes>>

\* A catch block that returns the incoming state instead of {}.
readReducerRejectedKeepsState ==
    /\ pc = "whole" /\ hook = "outbound"
    /\ pc' = "done"
    /\ pending' = NoCall
    /\ outcomes' = <<"failed">>
    /\ result' = work
    /\ UNCHANGED <<cfg, args, keychain, hook, input, original, shared, work, paths, idx, calls, persisted, passes>>

\* outbound without paths: getPassword has thrown, the catch block returns {}
readReducerRejected ==
    /\ pc = "whole" /\ hook = "outbound"
    /\ pc' = "done"
    /\ pending' = NoCall
    /\ outcomes' = <<"failed">>
    /\ result' = EmptyObject
    /\ UNCHANGED <<cfg, args, keychain, hook, input, original, shared, work, paths, idx, calls, persisted, passes>>

\* ---------------------------------------- the earliest transform variant
\* createPasswordTransform of lines 7-87: passwordPaths is required, inbound
\* reads the secrets (rehydrate) with lodash set on a shallow copy, outbound
\* writes them (persist) with lodash unset on a shallow copy.

\* The configs of the earliest variant: serviceName, passwordPaths and
\* clearPasswords.
FirstConfigs == {c \in Configs : c.accountName = <<>> /\ ~c.serialize}

\* getPasswordPaths(state) of the earliest variant: threw on
\* 'Empty password paths' and when the call of passwordPaths throws.
getPasswordPathsFirst(state) ==
    LET pp == cfg.passwordPaths
    IN  IF pp.kind = "function" /\ pp.fn = "keys"
        THEN (IF IsNil(state) THEN [threw |-> TRUE, list |-> <<>>]
              ELSE [threw |-> FALSE, list |-> ObjectKeys(state)])
        ELSE IF pp.kind = "function" THEN [threw |-> TRUE, list |-> <<>>]
        ELSE [threw |-> FALSE, list |-> pp.list]

\* createPasswordTransform(config) of the earliest variant
createPasswordTransformFirst ==
    /\ pc = "new"
    /\ \E config \in FirstConfigs :
         /\ cfg' = config
         /\ pc' = IF config.serviceName = <<>> \/ NoPasswordPaths(config.passwordPaths)
                  THEN "first-threw" ELSE "first-idle"
    /\ UNCHANGED <<args, keychain, hook, input, original, shared, work, paths, idx, pending,
                   calls, outcomes, result, persisted, passes>>

\* A hook of the earliest variant is called with state: the copy is made and
\* the paths are resolved.
firstHookOf(name, state) ==
    /\ hook' = name
    /\ input' = state
    /\ original' = state
    /\ shared' = ContainerPaths(state)
    /\ work' = Spread(state)
    /\ pc' = IF getPasswordPathsFirst(state).threw THEN "first-raised" ELSE "first-loop"
    /\ paths' = getPasswordPathsFirst(state).list
    /\ idx' = 1
    /\ pending' = NoCall
    /\ calls' = <<>>
    /\ outcomes' = <<>>
    /\ result' = Undefined
    /\ UNCHANGED <<cfg, args, keychain, persisted, passes>>

\* inbound(state) of the earliest variant, the rehydrate direction
inboundFirst ==
    /\ pc = "first-idle"
    /\ \E state \in States : firstHookOf("first-inbound", state)

\* inbound's loop body to its await: getPassword(serviceName, path)
inboundFirstGetPassword ==
    /\ pc = "first-loop" /\ hook = "first-inbound" /\ idx <= Len(paths)
    /\ LET call == GetPasswordCall(cfg.serviceName, paths[idx])
       IN  /\ pc' = "first-await"
           /\ pending' = call
           /\ calls' = Append(calls, call)
    /\ UNCHANGED <<cfg, args, keychain, hook, input, original, shared, work, paths, idx,
                   outcomes, result, persisted, passes>>

\* getPassword has resolved: if (!!secret) set(inboundState, path, secret)
inboundFirstResolved ==
    /\ pc = "first-await" /\ hook = "first-inbound"
    /\ LET secret == Lookup(keychain, pending.service, pending.account)
       IN  IF ~Truthy(secret)
           THEN /\ outcomes' = Append(outcomes, "nothing")
                /\ UNCHANGED <<work, original, shared>>
           ELSE /\ outcomes' = Append(outcomes, "set")
                /\ work' = LodashSet(work, paths[idx], secret)
                /\ original' = IF WritesShared(shared, work, paths[idx])
                                THEN LodashSet(original, paths[idx], secret)
                                ELSE original
                /\ shared' = SharedBut(shared, work, paths[idx])
    /\ pc' = "first-loop"
    /\ idx' = idx + 1
    /\ pending' = NoCall
    /\ UNCHANGED <<cfg, args, keychain, hook, input, paths, calls, result, persisted, passes>>

\* getPassword has thrown: the catch block logs and breaks out of the loop.
inboundFirstRejected ==
    /\ pc = "first-await" /\ hook = "first-inbound"
    /\ pc' = "first-loop"
    /\ idx' = Len(paths) + 1
    /\ pending' = NoCall
    /\ outcomes' = Append(outcomes, "failed")
    /\ UNCHANGED <<cfg, args, keychain, hook, input, original, shared, work, paths, calls,
                   result, persisted, passes>>

\* outbound(state) of the earliest variant, the persist direction
outboundFirst ==
    /\ pc = "first-idle"
    /\ \E state \in States : firstHookOf("first-outbound", state)

\* outbound's loop body to its await: the secret is read from state (the
\* argument as it is now); a falsy one is passed over, otherwise
\* setPassword(serviceName, path, secret) is called.  keytar takes strings:
\* the call record holds the string form of the secret.
outboundFirstSetPassword ==
    /\ pc = "first-loop" /\ hook = "first-outbound" /\ idx <= Len(paths)
    /\ LET secret == Get(original, paths[idx])
           call == SetPasswordCall(cfg.serviceName, paths[idx], StringOf(secret))
       IN  IF ~Truthy(secret)
           THEN /\ idx' = idx + 1
                /\ outcomes' = Append(outcomes, "nothing")
                /\ UNCHANGED <<pc, pending, calls>>
           ELSE /\ pc' = "first-await"
                /\ pending' = call
                /\ calls' = Append(calls, call)
                /\ UNCHANGED <<idx, outcomes>>
    /\ UNCHANGED <<cfg, args, keychain, hook, input, original, shared, work, paths, result,
                   persisted, passes>>

\* setPassword has succeeded: if (clearPasswords) unset(outboundState, path)
outboundFirstResolved ==
    /\ pc = "first-await" /\ hook = "first-outbound"
    /\ keychain' = Store(keychain, pending.service, pending.account, pending.secret)
    /\ work' = IF cfg.clearPasswords THEN Unset(work, paths[idx]) ELSE work
    /\ original' = IF cfg.clearPasswords /\ WritesShared(shared, work, paths[idx])
                    THEN Unset(original, paths[idx])
                    ELSE original
    /\ shared' = IF cfg.clearPasswords THEN SharedBut(shared, work, paths[idx]) ELSE shared
    /\ pc' = "first-loop"
    /\ idx' = idx + 1
    /\ pending' = NoCall
    /\ outcomes' = Append(outcomes, "written")
    /\ UNCHANGED <<cfg, args, hook, input, paths, calls, result, persisted, passes>>

\* setPassword has thrown (with a secret that is not a string it may): no
\* catch block, the hook's promise is rejected.
outboundFirstRejected ==
    /\ pc = "first-await" /\ hook = "first-outbound"
    /\ pc' = "first-raised"
    /\ pending' = NoCall
    /\ outcomes' = Append(outcomes, "failed")
    /\ UNCHANGED <<cfg, args, keychain, hook, input, original, shared, work, paths, idx,
                   calls, result, persisted, passes>>

\* The return after the loop, of inbound and of outbound
firstHookReturn ==
    /\ pc = "first-loop" /\ idx > Len(paths)
    /\ pc' = "first-done"
    /\ result' = work
    /\ UNCHANGED <<cfg, args, keychain, hook, input, original, shared, work, paths, idx,
                   pending, calls, outcomes, persisted, passes>>

\* ------------------------------------------------ the keychain utilities

AccessSuffix == <<"-", "a", "c", "c", "e", "s", "s">>

AccessSecret == <<"a", "c", "c", "e", "s", "s">>

\* An access check on the account itself, without the suffix.
accessCheckAccountSame(accountName) == accountName

\* const accessCheckAccount = accountName.concat('-access')
accessCheckAccount(accountName) == accountName \o AccessSuffix

\* What the utilities leave alone.
TransformVars == <<cfg, input, original, shared, work, paths, idx, persisted, passes>>

\* accessKeychain(serviceName, accountName), to its first await: without an
\* accountName concat throws and the catch block returns false, otherwise
\* setPassword is called for the access-check account.
accessKeychain ==
    /\ pc = "new"
    /\ \E serviceName \in ServiceNames, accountName \in AccountNames :
         LET call == SetPasswordCall(serviceName, accessCheckAccount(accountName),
                                     AccessSecret)
         IN  /\ args' = [serviceName |-> serviceName, accountName |-> accountName,
                         keychain |-> keychain]
             /\ IF accountName = <<>>
                THEN /\ pc' = "done"
                     /\ result' = Bool(FALSE)
                     /\ UNCHANGED <<pending, calls>>
                ELSE /\ pc' = "await"
                     /\ pending' = call
                     /\ calls' = <<call>>
                     /\ UNCHANGED result
    /\ hook' = "accessKeychain"
    /\ outcomes' = <<>>
    /\ UNCHANGED <<keychain, TransformVars>>

\* setPassword has succeeded: deletePassword is called for the same account.
accessSetResolved ==
    /\ pc = "await" /\ hook = "accessKeychain" /\ pending.op = "setPassword"
    /\ keychain' = Store(keychain, pending.service, pending.account, pending.secret)
    /\ LET call == DeletePasswordCall(args.serviceName, accessCheckAccount(args.accountName))
       IN  /\ pending' = call
           /\ calls' = Append(calls, call)
    /\ outcomes' = Append(outcomes, "written")
    /\ UNCHANGED <<args, pc, hook, result, TransformVars>>

\* setPassword has thrown: accessKeychain's catch block returns false.
accessSetRejected ==
    /\ pc = "await" /\ hook = "accessKeychain" /\ pending.op = "setPassword"
    /\ pc' = "done"
    /\ pending' = NoCall
    /\ outcomes' = Append(outcomes, "failed")
    /\ result' = Bool(FALSE)
    /\ UNCHANGED <<args, keychain, hook, calls, TransformVars>>

\* A check that reports success whatever deletePassword resolved to.
accessDeleteResolvedAlwaysTrue ==
    /\ pc = "await" /\ hook = "accessKeychain" /\ pending.op = "deletePassword"
    /\ \E wasDeleted \in BOOLEAN :
         /\ wasDeleted => HasEntry(keychain, pending.service, pending.account)
         /\ keychain' = IF wasDeleted
                        THEN Remove(keychain, pending.service, pending.account)
                        ELSE keychain
         /\ outcomes' = Append(outcomes, IF wasDeleted THEN "deleted" ELSE "kept")
         /\ result' = Bool(TRUE)
    /\ pc' = "done"
    /\ pending' = NoCall
    /\ UNCHANGED <<args, hook, calls, TransformVars>>

\* deletePassword has resolved, to true with the entry removed or to false
\* with nothing removed: return wasDeleted.
accessDeleteResolved ==
    /\ pc = "await" /\ hook = "accessKeychain" /\ pending.op = "deletePassword"
    /\ \E wasDeleted \in BOOLEAN :
         /\ wasDeleted => HasEntry(keychain, pending.service, pending.account)
         /\ keychain' = IF wasDeleted
                        THEN Remove(keychain, pending.service, pending.account)
                        ELSE keychain
         /\ outcomes' = Append(outcomes, IF wasDeleted THEN "deleted" ELSE "kept")
         /\ result' = Bool(wasDeleted)
    /\ pc' = "done"
    /\ pending' = NoCall
    /\ UNCHANGED <<args, hook, calls, TransformVars>>

\* deletePassword has thrown: accessKeychain's catch block returns false.
accessDeleteRejected ==
    /\ pc = "await" /\ hook = "accessKeychain" /\ pending.op = "deletePassword"
    /\ pc' = "done"
    /\ pending' = NoCall
    /\ outcomes' = Append(outcomes, "failed")
    /\ result' = Bool(FALSE)
    /\ UNCHANGED <<args, keychain, hook, calls, TransformVars>>

\* clearKeychain(serviceName, accountName), to its await
clearKeychain ==
    /\ pc = "new"
    /\ \E serviceName \in ServiceNames, accountName \in AccountNames :
         LET call == DeletePasswordCall(serviceName, accountName)
         IN  /\ args' = [serviceName |-> serviceName, accountName |-> accountName,
                         keychain |-> keychain]
             /\ pending' = call
             /\ calls' = <<call>>
    /\ pc' = "await"
    /\ hook' = "clearKeychain"
    /\ outcomes' = <<>>
    /\ UNCHANGED <<keychain, result, TransformVars>>

\* deletePassword has resolved: the try block ends and the function returns
\* without a value.
clearDeleteResolved ==
    /\ pc = "await" /\ hook = "clearKeychain"
    /\ \E wasDeleted \in BOOLEAN :
         /\ wasDeleted => HasEntry(keychain, pending.service, pending.account)
         /\ keychain' = IF wasDeleted
                        THEN Remove(keychain, pending.service, pending.account)
                        ELSE keychain
         /\ outcomes' = Append(outcomes, IF wasDeleted THEN "deleted" ELSE "kept")
    /\ pc' = "done"
    /\ pending' = NoCall
    /\ result' = Undefined
    /\ UNCHANGED <<args, hook, calls, TransformVars>>

\* deletePassword has thrown: clearKeychain's catch block returns false.
clearDeleteRejected ==
    /\ pc = "await" /\ hook = "clearKeychain"
    /\ pc' = "done"
    /\ pending' = NoCall
    /\ outcomes' = Append(outcomes, "failed")
    /\ result' = Bool(FALSE)
    /\ UNCHANGED <<args, keychain, hook, calls, TransformVars>>

Next ==
    \/ createPasswordTransform
    \/ inbound
    \/ setPasswordForPath
    \/ setPasswordResolved
    \/ setPasswordRejected
    \/ inboundReturn
    \/ writeReducerResolved
    \/ writeReducerRejected
    \/ outbound
    \/ outboundPersisted
    \/ getPasswordForPath
    \/ getPasswordResolved
    \/ getPasswordRejected
    \/ outboundReturn
    \/ readReducerResolved
    \/ readReducerRejected
    \/ accessKeychain
    \/ accessSetResolved
    \/ accessSetRejected
    \/ accessDeleteResolved
    \/ accessDeleteRejected
    \/ clearKeychain
    \/ clearDeleteResolved
    \/ clearDeleteRejected
    \/ createPasswordTransformFirst
    \/ inboundFirst
    \/ inboundFirstGetPassword
    \/ inboundFirstResolved
    \/ inboundFirstRejected
    \/ outboundFirst
    \/ outboundFirstSetPassword
    \/ outboundFirstResolved
    \/ outboundFirstRejected
    \/ firstHookReturn

Spec == Init /\ [][Next]_vars

\* -------------------------------------- two interleaved persist passes
\* One transform, two calls of inbound whose awaits interleave.  What a call
\* has of its own is in passes; the keychain is what the calls share.

\* The configs of the transform: passwordPaths a string or a list of top
\* level keys, no accountName.
TwoPassConfigs ==
    {c \in Configs :
        /\ c.serviceName # <<>> /\ c.accountName = <<>>
        /\ c.passwordPaths.kind \in {"string", "list"}
        /\ \A i \in 1..Len(c.passwordPaths.list) : c.passwordPaths.list[i] \in {kA, kB}}

\* pathsToGet of a call
PathsOfPass(p) == getPasswordPaths(passes[p].input).list

InitTwo ==
    /\ cfg \in TwoPassConfigs
    /\ args = NoArgs
    /\ pc = "idle"
    /\ keychain = {}
    /\ hook = "none"
    /\ input = Undefined
    /\ original = Undefined
    /\ shared = {}
    /\ work = Undefined
    /\ paths = <<>>
    /\ idx = 0
    /\ pending = NoCall
    /\ calls = <<>>
    /\ outcomes = <<>>
    /\ result = Undefined
    /\ persisted = NoPersist
    /\ passes = [p \in Passes |-> NoPass]

\* What a step of one of the two calls leaves alone.
SingleVars ==
    <<cfg, args, pc, hook, input, original, shared, work, paths, idx, pending, calls,
      outcomes, result, persisted>>

\* inbound(state), call p: the copy is made, the loop starts.
inboundOfPass(p) ==
    /\ passes[p].pc = "idle"
    /\ \E state \in States :
         passes' = [passes EXCEPT ![p] =
                      [pc |-> "loop", input |-> state, work |-> Spread(state), idx |-> 1,
                       pending |-> NoCall, outcomes |-> <<>>, result |-> Undefined]]
    /\ UNCHANGED <<keychain, SingleVars>>

\* setPasswordForPath(inboundState, path) of call p, to its await
setPasswordForPathOfPass(p) ==
    /\ passes[p].pc = "loop" /\ passes[p].idx <= Len(PathsOfPass(p))
    /\ LET path == PathsOfPass(p)[passes[p].idx]
           secret == Get(passes[p].work, path)
           call == SetPasswordCall(cfg.serviceName, AccountFor(path),
                                   coerceString(secret, serialize))
       IN  passes' = [passes EXCEPT ![p] =
                        IF ~Truthy(secret)
                        THEN [@ EXCEPT !.work = Undefined, !.idx = @ + 1,
                                       !.outcomes = Append(@, "nothing")]
                        ELSE [@ EXCEPT !.pc = "await", !.pending = call]]
    /\ UNCHANGED <<keychain, SingleVars>>

\* setPassword of call p has succeeded: the rest of the try block.
setPasswordResolvedOfPass(p) ==
    /\ passes[p].pc = "await"
    /\ keychain' = Store(keychain, passes[p].pending.service, passes[p].pending.account,
                         passes[p].pending.secret)
    /\ passes' = [passes EXCEPT ![p] =
                    [@ EXCEPT !.pc = "loop", !.idx = @ + 1, !.pending = NoCall,
                              !.outcomes = Append(@, "written"),
                              !.work = IF cfg.clearPasswords
                                       THEN deleteIn(@, PathsOfPass(p)[passes[p].idx])
                                       ELSE @]]
    /\ UNCHANGED SingleVars

\* setPassword of call p has thrown: the catch block.
setPasswordRejectedOfPass(p) ==
    /\ passes[p].pc = "await"
    /\ passes' = [passes EXCEPT ![p] =
                    [@ EXCEPT !.pc = "loop", !.idx = @ + 1, !.pending = NoCall,
                              !.outcomes = Append(@, "failed")]]
    /\ UNCHANGED <<keychain, SingleVars>>

\* One inboundState for all calls: a call returns what the other call has.
inboundReturnSharedState(p) ==
    /\ passes[p].pc = "loop" /\ passes[p].idx > Len(PathsOfPass(p))
    /\ passes' = [passes EXCEPT ![p] =
                    [@ EXCEPT !.pc = "done", !.result = passes[3 - p].work]]
    /\ UNCHANGED <<keychain, SingleVars>>

\* inbound's return after the loop, call p
inboundReturnOfPass(p) ==
    /\ passes[p].pc = "loop" /\ passes[p].idx > Len(PathsOfPass(p))
    /\ passes' = [passes EXCEPT ![p] = [@ EXCEPT !.pc = "done", !.result = passes[p].work]]
    /\ UNCHANGED <<keychain, SingleVars>>

NextTwo ==
    \/ \E p \in Passes : inboundOfPass(p)
    \/ \E p \in Passes : setPasswordForPathOfPass(p)
    \/ \E p \in Passes : setPasswordResolvedOfPass(p)
    \/ \E p \in Passes : setPasswordRejectedOfPass(p)
    \/ \E p \in Passes : inboundReturnOfPass(p)

SpecTwo == InitTwo /\ [][NextTwo]_vars

\* ----------------------------------------------------------- the claims

\* The persist pass (inbound, transform.in) has returned.
PersistDone == pc = "done" /\ hook = "inbound"

\* The rehydrate pass (outbound, transform.out) has returned.
RehydrateDone == pc = "done" /\ hook = "outbound"

\* The running pass is in per-path mode: passwordPaths resolved to a list.
ResolvedList ==
    /\ hook # "none"
    /\ ~getPasswordPaths(input).threw
    /\ ~getPasswordPaths(input).nil

\* Whole-object mode: accountName set, passwordPaths absent.
WholeObject == cfg.passwordPaths.kind = "absent" /\ cfg.accountName # <<>>

\* One path lies on the other.
Overlap(p, q) ==
    \/ IsPrefix(StringToPath(p), StringToPath(q))
    \/ IsPrefix(StringToPath(q), StringToPath(p))

NonOverlapping ==
    \A i, j \in 1..Len(paths) : i # j => ~Overlap(paths[i], paths[j])

\* No keytar call of the pass has thrown.
NoFailure(os) == \A i \in 1..Len(os) : os[i] # "failed"

\* The keys of the input that no resolved path starts with.
UnrelatedKeys ==
    {input.m[i][1] : i \in 1..Len(input.m)}
      \ {StringToPath(paths[i])[1] : i \in {j \in 1..Len(paths) : paths[j] # <<>>}}

\* C1: in per-path mode the persist pass returns an object in which every
\* field that lies on no resolved path equals the input's field, also when a
\* resolved path holds nothing or a falsy value.
C1_PersistKeepsUnrelatedFields ==
    (PersistDone /\ ResolvedList) =>
        /\ result.t = "object"
        /\ \A k \in UnrelatedKeys :
             HasProp(result, k) /\ DeepEqual(Prop(result, k), Prop(input, k))

RECURSIVE ExpectedWrites(_, _, _)
\* One write per path of ps, from position i on, whose value in state is
\* truthy: (serviceName, path, the value coerced to a string).
ExpectedWrites(state, ps, i) ==
    IF i > Len(ps) THEN <<>>
    ELSE (IF Truthy(Get(state, ps[i]))
          THEN <<SetPasswordCall(cfg.serviceName, ps[i],
                                 coerceString(Get(state, ps[i]), serialize))>>
          ELSE <<>>)
           \o ExpectedWrites(state, ps, i + 1)

\* C2: in per-path mode with the store succeeding (here: no accountName, no
\* path lying on another), the writes of one persist pass are exactly one
\* write (serviceName, path, coerced value) per resolved path whose value in
\* the input is truthy, in resolution order.
C2_WritesForEveryTruthyPath ==
    (PersistDone /\ ResolvedList /\ cfg.accountName = <<>> /\ NonOverlapping
       /\ NoFailure(outcomes)) =>
        calls = ExpectedWrites(input, paths, 1)

\* Some keytar call of the pass has thrown.
SomeFailure(os) == \E i \in 1..Len(os) : os[i] = "failed"

\* C3: in per-path mode (no path lying on another), when a write fails the
\* pass does not raise, the path's value is still in the returned state, the
\* paths cleared after a successful write stay cleared, and every later path
\* with a truthy value is still attempted; a value is removed from the
\* returned state only if its write succeeded.
C3_WriteFailureIsContained ==
    (hook = "inbound" /\ pc \in {"done", "raised"} /\ ResolvedList /\ NonOverlapping
       /\ SomeFailure(outcomes)) =>
        /\ pc = "done"
        /\ \A i \in 1..Len(paths) :
             /\ outcomes[i] = "failed" =>
                  /\ DeepEqual(Get(result, paths[i]), Get(input, paths[i]))
                  /\ \A j \in (i + 1)..Len(paths) :
                       Truthy(Get(input, paths[j])) => outcomes[j] \in {"written", "failed"}
             /\ (outcomes[i] = "written" /\ cfg.clearPasswords) =>
                  Get(result, paths[i]) = Undefined
             /\ (Truthy(Get(input, paths[i])) /\ ~Truthy(Get(result, paths[i]))) =>
                  outcomes[i] = "written"

\* Path i of the resolved paths lies on no other resolved path.
Alone(i) == \A j \in 1..Len(paths) : j # i => ~Overlap(paths[i], paths[j])

\* What getPasswordForPath sets for a secret read from the keychain.
Decoded(secret) == IF serialize THEN JSONParse(secret).v ELSE secret

\* C4: in per-path mode, when a read throws the rehydrate pass does not
\* raise, every resolved path is still read, in order, the path of the
\* failed read is as it was in the incoming state, and the secrets found for
\* the other paths are set (for a path that lies on no other resolved path).
C4_ReadFailureIsContained ==
    (hook = "outbound" /\ pc \in {"done", "raised"} /\ ResolvedList
       /\ SomeFailure(outcomes)) =>
        /\ pc = "done"
        /\ Len(calls) = Len(paths)
        /\ \A i \in 1..Len(paths) :
             /\ calls[i] = GetPasswordCall(cfg.serviceName, AccountFor(paths[i]))
             /\ (outcomes[i] = "failed" /\ Alone(i)) =>
                  DeepEqual(Get(result, paths[i]), Get(input, paths[i]))
             /\ (outcomes[i] = "set" /\ Alone(i)) =>
                  LET toSet == Decoded(Lookup(keychain, cfg.serviceName, AccountFor(paths[i])))
                  IN  Get(result, paths[i])
                        = Get(SetWith(Spread(input), paths[i], toSet), paths[i])

\* C4's case: a pass over two paths whose first read threw and whose second
\* read found a secret that is now in the returned state.
C4_Witness ==
    /\ RehydrateDone /\ ResolvedList /\ NonOverlapping
    /\ outcomes = <<"failed", "set">>
    /\ Get(result, paths[1]) = Get(input, paths[1])
    /\ Get(result, paths[2]) = Str(sPw)
    /\ Get(input, paths[2]) # Str(sPw)

C6_WholeObjectPersist ==
    (hook = "inbound" /\ WholeObject) =>
        /\ pc # "raised"
        /\ calls = <<SetPasswordCall(cfg.serviceName, cfg.accountName, JSONStringify(input))>>
        /\ pc = "done" => result = EmptyObject

\* C6's case: serialize is false, the state is not empty and the write failed.
C6_Witness ==
    /\ PersistDone /\ WholeObject /\ ~cfg.serialize
    /\ outcomes = <<"failed">>
    /\ input = Obj(<< <<kA, Obj(<< <<kB, Num(7)>> >>)>>, <<kB, Str(sPw)>> >>)
    /\ result = EmptyObject

\* C7: in whole-object mode the rehydrate pass reads (serviceName,
\* accountName) once; it returns {} when the read throws or the stored string
\* is not valid JSON, and the parsed value, whatever the incoming state,
\* when the stored string is valid JSON; it never raises.
C7_WholeObjectRehydrate ==
    (hook = "outbound" /\ WholeObject) =>
        /\ pc # "raised"
        /\ calls = <<GetPasswordCall(cfg.serviceName, cfg.accountName)>>
        /\ (pc = "done" /\ outcomes = <<"failed">>) => result = EmptyObject
        /\ (pc = "done" /\ outcomes # <<"failed">>
              /\ HasEntry(keychain, cfg.serviceName, cfg.accountName)) =>
             LET secret == Lookup(keychain, cfg.serviceName, cfg.accountName)
             IN  result = IF JSONParse(secret).ok THEN JSONParse(secret).v ELSE EmptyObject

\* C7's case: the stored string is {"b":7} and the incoming state another
\* object; the result is the stored object.
C7_Witness ==
    /\ RehydrateDone /\ WholeObject
    /\ input = Obj(<< <<kA, Num(4)>>, <<kB, Num(8)>> >>)
    /\ result = Obj(<< <<kB, Num(7)>> >>)

RECURSIVE JsonCompatible(_)
\* A value JSON can carry: no undefined and no hole in it.
JsonCompatible(v) ==
    /\ v.t # "undefined"
    /\ v.t = "array" => Len(v.m) = v.n
    /\ \A i \in 1..Len(v.m) : JsonCompatible(v.m[i][2])

\* C8: whole-object round trip.  With no keytar call failing, the persist
\* pass on a JSON-compatible state S followed by the rehydrate pass on the
\* persisted result returns a state equal to S.
C8_WholeObjectRoundTrip ==
    (RehydrateDone /\ WholeObject /\ persisted.valid /\ NoFailure(persisted.outcomes)
       /\ NoFailure(outcomes) /\ JsonCompatible(persisted.input)) =>
        /\ persisted.result = EmptyObject
        /\ input = EmptyObject
        /\ DeepEqual(result, persisted.input)

\* C8's case: a nested state with an array has gone through the keychain and
\* come back.
C8_Witness ==
    /\ RehydrateDone /\ WholeObject /\ persisted.valid
    /\ NoFailure(persisted.outcomes) /\ NoFailure(outcomes)
    /\ persisted.input
         = Obj(<< <<kA, Arr(1, << <<<<"0">>, Obj(<< <<kB, Str(sPw)>> >>)>> >>)>>, <<kB, Null>> >>)
    /\ result = persisted.input

\* The paths the persist pass being rehydrated resolved.
PersistedPaths == getPasswordPaths(persisted.input)

\* C9: per-path round trip.  With serialize, no accountName, clearPasswords,
\* no keytar call failing and resolved paths that do not lie on one another
\* and hold truthy values, the persist pass on S followed by the rehydrate
\* pass on the persisted result returns a state equal to S, for passwordPaths
\* a string, a list and a function of the state.
C9_PerPathRoundTrip ==
    (/\ hook = "outbound" /\ pc \in {"done", "raised"} /\ persisted.valid
     /\ cfg.serialize /\ cfg.accountName = <<>> /\ cfg.clearPasswords
     /\ ~PersistedPaths.threw /\ ~PersistedPaths.nil
     /\ \A i \in 1..Len(PersistedPaths.list) :
          /\ Truthy(Get(persisted.input, PersistedPaths.list[i]))
          /\ \A j \in 1..Len(PersistedPaths.list) :
               i # j => ~Overlap(PersistedPaths.list[i], PersistedPaths.list[j])
     /\ NoFailure(persisted.outcomes) /\ NoFailure(outcomes)) =>
        /\ pc = "done"
        /\ DeepEqual(result, persisted.input)

\* C10: in per-path mode, whatever the configuration, the keytar calls of one
\* pass for two different resolved paths are for different accounts.
C10_DistinctEntryPerPath ==
    (hook # "none" /\ ResolvedList) =>
        \A i, j \in 1..Len(calls) : i # j => calls[i].account # calls[j].account

\* The hook's argument is one for which the function passwordPaths returns
\* an empty list, undefined or null.
ResolvedEmpty ==
    /\ hook \in {"inbound", "outbound"}
    /\ cfg.passwordPaths.kind = "function"
    /\ ~getPasswordPaths(input).threw
    /\ getPasswordPaths(input).nil \/ getPasswordPaths(input).list = <<>>

\* C11: when the function passwordPaths resolves, for the given state, to an
\* empty list or to undefined/null, the persist pass and the rehydrate pass
\* raise: no keytar call is made and nothing is returned (the pass does not
\* go on as in whole-object mode).
C11_EmptyResolutionRaises ==
    ResolvedEmpty =>
        /\ pc = "raised"
        /\ calls = <<>>
        /\ result = Undefined

\* Every resolved path holds a truthy value in the hook's argument.
AllTruthy == \A i \in 1..Len(paths) : Truthy(Get(input, paths[i]))

\* C12: in the per-path persist pass the value written for a resolved path
\* is the value at the path in the hook's argument, not the one in the
\* working copy: with a truthy value at every resolved path of the argument
\* there is one write per path, of the argument's value, also when an earlier
\* path is a prefix of a later one and clearPasswords is true.
C12_WritesOriginalValues ==
    (hook = "inbound" /\ pc \in {"done", "raised"} /\ ResolvedList /\ AllTruthy) =>
        /\ Len(calls) = Len(paths)
        /\ \A i \in 1..Len(paths) :
             calls[i].secret = coerceString(Get(input, paths[i]), serialize)

\* C13: neither pass mutates its argument.  While a pass runs and after it
\* has returned, the object the hook was called with, and every object
\* reachable from it, holds what it held at the call: the edits of the
\* working copy (deleteIn, setWith) are made on copied containers only.
C13_InputIsNotMutated ==
    hook \in {"inbound", "outbound"} => original = input

\* C13's case: a secret under a nested path (through an object or an array)
\* was written and cleared from the returned state, or set in it, and the
\* argument still holds its value.
C13_Witness ==
    /\ pc = "done" /\ ResolvedList
    /\ \E i \in 1..Len(paths) :
         /\ Len(StringToPath(paths[i])) > 1
         /\ IsObject(Get(input, kA))
         /\ outcomes[i] \in {"written", "set"}
         /\ Get(result, paths[i]) # Get(input, paths[i])
         /\ Get(original, paths[i]) = Get(input, paths[i])

\* C14: with clearPasswords false the per-path persist pass writes every
\* truthy secret of its argument and returns a state equal to the argument.
C14_KeepsSecretsWhenNotClearing ==
    (PersistDone /\ ResolvedList /\ ~cfg.clearPasswords) =>
        /\ DeepEqual(result, input)
        /\ \A i \in 1..Len(paths) :
             Truthy(Get(input, paths[i])) =>
                 \E k \in 1..Len(calls) :
                     calls[k] = SetPasswordCall(cfg.serviceName, AccountFor(paths[i]),
                                                coerceString(Get(input, paths[i]), serialize))

\* C15: accessKeychain never throws; it resolves to true exactly when
\* setPassword succeeded and deletePassword then resolved to true, and to
\* false when setPassword threw, deletePassword threw or deletePassword
\* resolved to false (and when there is no accountName to derive from).
C15_AccessReportsWriteAndDelete ==
    (hook = "accessKeychain" /\ pc \notin {"await"}) =>
        /\ pc = "done"
        /\ result \in {Bool(TRUE), Bool(FALSE)}
        /\ result = Bool(TRUE) <=> outcomes = <<"written", "deleted">>

\* C15's case: the write succeeded, deletePassword reported that nothing was
\* deleted, and the check resolved to false.
C15_Witness ==
    /\ hook = "accessKeychain" /\ pc = "done"
    /\ outcomes = <<"written", "kept">>
    /\ result = Bool(FALSE)

\* The entries of a keychain other than the one of (service, account).
EntriesBut(kc, service, account) ==
    {e \in kc : ~(e.service = service /\ e.account = account)}

\* C16: accessKeychain issues at most one setPassword and after it, only
\* when it has succeeded, at most one deletePassword, both for (serviceName,
\* accountName + '-access'); every other entry of the keychain, the one of
\* (serviceName, accountName) included, stays as it was.
C16_AccessTouchesOnlyDerivedEntry ==
    hook = "accessKeychain" =>
        LET derived == args.accountName \o <<"-", "a", "c", "c", "e", "s", "s">>
        IN  /\ Len(calls) <= 2
            /\ \A k \in 1..Len(calls) :
                 calls[k].service = args.serviceName /\ calls[k].account = derived
            /\ Len(calls) >= 1 => calls[1].op = "setPassword"
            /\ Len(calls) = 2 => calls[2].op = "deletePassword" /\ outcomes[1] = "written"
            /\ EntriesBut(keychain, args.serviceName, derived)
                 = EntriesBut(args.keychain, args.serviceName, derived)
            /\ derived # args.accountName

\* C16's case: the keychain holds a secret under (serviceName, accountName);
\* the check has written and deleted its own entry and the secret is there.
C16_Witness ==
    /\ hook = "accessKeychain" /\ pc = "done"
    /\ outcomes = <<"written", "deleted">>
    /\ HasEntry(args.keychain, args.serviceName, args.accountName)
    /\ Lookup(keychain, args.serviceName, args.accountName) = Str(sPw)
    /\ keychain = args.keychain

\* C17: clearKeychain never throws and resolves to a boolean: true when
\* deletePassword removed the entry (serviceName, accountName), false
\* otherwise, also when deletePassword throws.
C17_ClearReportsBoolean ==
    (hook = "clearKeychain" /\ pc \notin {"await"}) =>
        /\ pc = "done"
        /\ calls = <<DeletePasswordCall(args.serviceName, args.accountName)>>
        /\ result \in {Bool(TRUE), Bool(FALSE)}
        /\ result = Bool(TRUE) <=> outcomes = <<"deleted">>

\* createPasswordTransform has been called.
Constructed ==
    /\ pc \notin {"new", "first-threw", "first-idle", "first-loop", "first-await",
                  "first-done", "first-raised"}
    /\ hook \notin {"accessKeychain", "clearKeychain"}

\* C18: createPasswordTransform throws exactly when serviceName is missing,
\* or accountName and passwordPaths are both missing; it makes no keytar
\* call, whether it throws or not.
C18_ConstructionThrows ==
    Constructed =>
        /\ pc = "threw" <=>
             \/ cfg.serviceName = <<>>
             \/ cfg.accountName = <<>> /\ cfg.passwordPaths.kind = "absent"
        /\ hook = "none" => calls = <<>> /\ pending = NoCall

\* C18's case: a transform for the whole reducer, with an accountName and
\* without passwordPaths, has been constructed.
C18_Witness ==
    /\ pc = "idle" /\ hook = "none"
    /\ cfg.serviceName # <<>>
    /\ cfg.accountName # <<>>
    /\ cfg.passwordPaths.kind = "absent"

\* The keytar calls of the running pass that have completed.
Completed ==
    IF hook = "inbound"
    THEN Cardinality({i \in 1..Len(outcomes) : outcomes[i] # "nothing"})
    ELSE Len(outcomes)

\* C19: in per-path mode the keytar calls of a pass are sequential: at most
\* one call is outstanding, the call for a path is issued when the calls for
\* all paths before it have completed, and the pass returns after the call
\* for the last path has completed.
C19_StoreCallsAreSequential ==
    (hook \in {"inbound", "outbound"} /\ ResolvedList) =>
        /\ Len(calls) - Completed \in {0, 1}
        /\ Len(calls) - Completed = 1 <=> pending # NoCall
        /\ pending # NoCall =>
             /\ pc = "await"
             /\ pending = calls[Len(calls)]
             /\ Len(outcomes) = idx - 1
        /\ pc = "done" => pending = NoCall /\ Len(outcomes) = Len(paths)

\* C19's case: the call for the second path is outstanding and the call for
\* the first has completed.
C19_Witness ==
    /\ hook \in {"inbound", "outbound"} /\ ResolvedList
    /\ pc = "await" /\ idx = 2
    /\ Len(calls) = 2 /\ Len(outcomes) = 1
    /\ pending = calls[2]

\* Some stored string of the pass was not JSON.
SomeUnparsed == \E i \in 1..Len(outcomes) : outcomes[i] = "unparsed"

\* C20: in the per-path rehydrate pass with serialize, a stored string that
\* is not valid JSON is contained: the pass does not raise, every resolved
\* path is still read, the path of the string is as it was in the incoming
\* state and the secrets decoded for the other paths are set (for a path
\* that lies on no other resolved path).
C20_DecodeFailureIsContained ==
    (hook = "outbound" /\ pc \in {"done", "raised"} /\ ResolvedList /\ serialize
       /\ SomeUnparsed) =>
        /\ pc = "done"
        /\ Len(calls) = Len(paths)
        /\ \A i \in 1..Len(paths) :
             LET secret == Lookup(keychain, cfg.serviceName, AccountFor(paths[i]))
             IN  /\ outcomes[i] = "unparsed" <=>
                      (outcomes[i] # "failed" /\ Truthy(secret) /\ ~JSONParse(secret).ok)
                 /\ (outcomes[i] = "unparsed" /\ Alone(i)) =>
                      DeepEqual(Get(result, paths[i]), Get(input, paths[i]))
                 /\ (outcomes[i] = "set" /\ Alone(i)) =>
                      Get(result, paths[i])
                        = Get(SetWith(Spread(input), paths[i], JSONParse(secret).v), paths[i])

\* C20's case: the string stored for the first path is not JSON, the one for
\* the second is, and the second path holds the decoded object.
C20_Witness ==
    /\ RehydrateDone /\ ResolvedList /\ serialize
    /\ outcomes = <<"unparsed", "set">>
    /\ Get(result, paths[1]) = Get(input, paths[1])
    /\ Get(result, paths[2]) = Obj(<< <<kB, Num(7)>> >>)
    /\ Get(input, paths[2]) # Obj(<< <<kB, Num(7)>> >>)

\* C23: in whole-object mode the rehydrate pass returns an object; when the
\* keychain holds no entry for (serviceName, accountName) and the read
\* resolves (to null), the result is {}.
C23_WholeObjectRehydrateReturnsObject ==
    (RehydrateDone /\ WholeObject) =>
        /\ result.t = "object"
        /\ (~HasEntry(keychain, cfg.serviceName, cfg.accountName) /\ NoFailure(outcomes)) =>
             result = EmptyObject

\* The keys of the result that no resolved path starts with are the keys of
\* the incoming state that no resolved path starts with, with equal values.
UnrelatedFieldsKept ==
    /\ \A k \in UnrelatedKeys : HasProp(result, k) /\ DeepEqual(Prop(result, k), Prop(input, k))
    /\ \A i \in 1..Len(result.m) :
         \/ HasProp(input, result.m[i][1])
         \/ \E j \in 1..Len(paths) : StringToPath(paths[j])[1] = result.m[i][1]

\* C21: the per-path rehydrate pass (no path lying on another) changes the
\* state only at the resolved paths for which getPassword resolved to a
\* non-empty string: such a path holds the decoded secret in the result, a
\* path without an entry or with an empty one is as in the incoming state,
\* and so is every field that lies on no resolved path.
C21_RehydrateSetsFoundSecretsOnly ==
    (RehydrateDone /\ ResolvedList /\ NonOverlapping) =>
        /\ result.t = "object"
        /\ UnrelatedFieldsKept
        /\ \A i \in 1..Len(paths) :
             LET secret == Lookup(keychain, cfg.serviceName, AccountFor(paths[i]))
             IN  /\ outcomes[i] = "set" => Get(result, paths[i]) = Decoded(secret)
                 /\ outcomes[i] = "nothing" =>
                      /\ ~Truthy(secret)
                      /\ DeepEqual(Get(result, paths[i]), Get(input, paths[i]))

\* The accounts the running pass may use: the resolved paths and the
\* configured accountName.
PassAccounts == {paths[i] : i \in 1..Len(paths)} \cup {cfg.accountName}

\* The calls of the rehydrate pass are reads, those of the persist pass are
\* writes to the accounts of the pass.
OneDirectionalCalls ==
    /\ hook = "outbound" => \A k \in 1..Len(calls) : calls[k].op = "getPassword"
    /\ hook = "inbound" =>
         \A k \in 1..Len(calls) :
             /\ calls[k].op = "setPassword"
             /\ calls[k].service = cfg.serviceName
             /\ calls[k].account \in PassAccounts

\* A step of the rehydrate pass leaves the keychain as it is; a step of the
\* persist pass removes no entry and writes only entries of the accounts of
\* the pass.
OneDirectionalStep ==
    /\ hook' = "outbound" => keychain' = keychain
    /\ hook' = "inbound" =>
         /\ \A e \in keychain : HasEntry(keychain', e.service, e.account)
         /\ \A e \in keychain' \ keychain :
              e.service = cfg'.serviceName /\ e.account \in PassAccounts'

\* C25: the rehydrate pass only reads and leaves every entry of the keychain
\* unchanged; the persist pass only writes, to the resolved paths or the
\* configured accountName, and removes no entry, so the entry of a path whose
\* value has become absent or falsy stays.
C25_StoreAccessIsOneDirectional ==
    []OneDirectionalCalls /\ [][OneDirectionalStep]_vars

\* C25's case: the persist pass found nothing at a resolved path and wrote a
\* secret for another; the entry the keychain had for the first is still there.
C25_Witness ==
    /\ PersistDone /\ ResolvedList /\ cfg.accountName = <<>>
    /\ \E i, j \in 1..Len(paths) :
         /\ outcomes[i] = "nothing"
         /\ Lookup(keychain, cfg.serviceName, paths[i]) = Str(JSONStringify(Obj(<< <<kB, Num(7)>> >>)))
         /\ outcomes[j] = "written"
         /\ Lookup(keychain, cfg.serviceName, paths[j]) = Str(sPw)

\* A hook of the earliest variant has ended: returned, or raised.
FirstEnded == pc \in {"first-done", "first-raised"}

\* C22: the earliest variant contains keytar failures too.  After a read
\* that throws, its rehydrate loop goes on and reads every remaining path;
\* a write that throws in its persist loop does not make the hook raise.
C22_FirstVariantContainsFailures ==
    (FirstEnded /\ SomeFailure(outcomes)) =>
        /\ pc = "first-done"
        /\ hook = "first-inbound" => Len(calls) = Len(paths)

\* Both calls have returned, from different states, every write succeeded
\* and every resolved path held a truthy value.
BothDoneClean ==
    /\ \A p \in Passes :
         /\ passes[p].pc = "done"
         /\ Len(passes[p].outcomes) = Len(PathsOfPass(p))
         /\ \A i \in 1..Len(passes[p].outcomes) : passes[p].outcomes[i] = "written"
    /\ passes[1].input # passes[2].input

\* The entry of path i holds the value the state of call p has there.
EntryFrom(p, i) ==
    Lookup(keychain, cfg.serviceName, PathsOfPass(p)[i])
      = Str(coerceString(Get(passes[p].input, PathsOfPass(p)[i]), serialize))

RECURSIVE Cleared(_, _, _)
\* state with the paths of ps from position i on deleted
Cleared(state, ps, i) ==
    IF i > Len(ps) THEN state ELSE Cleared(deleteIn(state, ps[i]), ps, i + 1)

\* What call p returned is what its own argument gives: the copy, with the
\* resolved paths deleted if clearPasswords.
OwnResult(p) ==
    passes[p].result
      = IF cfg.clearPasswords THEN Cleared(Spread(passes[p].input), PathsOfPass(p), 1)
        ELSE Spread(passes[p].input)

\* C24 as written: after two interleaved persist passes over different
\* states, with no write failing, the entries of the resolved paths all come
\* from one of the two states, and each call's result is its own.
C24_EntriesFromOneState ==
    BothDoneClean =>
        /\ \E p \in Passes : \A i \in 1..Len(PathsOfPass(p)) : EntryFrom(p, i)
        /\ \A p \in Passes : OwnResult(p)

\* C24, amended: the entry of each resolved path comes from one of the two
\* states (paths may differ in which), and each call's result is its own.
C24_EachEntryFromSomeState ==
    BothDoneClean =>
        /\ \A i \in 1..Len(PathsOfPass(1)) : \E p \in Passes : EntryFrom(p, i)
        /\ \A p \in Passes : OwnResult(p)

\* C24's case: two paths, the entry of the first holds the value of the
\* first call's state and the entry of the second that of the second call's.
C24_Witness ==
    /\ BothDoneClean
    /\ Len(PathsOfPass(1)) = 2
    /\ EntryFrom(1, 1) /\ ~EntryFrom(2, 1)
    /\ EntryFrom(2, 2) /\ ~EntryFrom(1, 2)
    /\ \A p \in Passes : OwnResult(p)

====
